---- MODULE Spec2Model ----
(***************************************************************************)
(* DocRefine: the plan / step execution engine of src/App.tsx, with the    *)
(* controls of src/components/PlanOverview.tsx and InputSection.tsx that   *)
(* dispatch its handlers, and the two remote calls of the service module   *)
(* (analyzeAndPlan, executeStep).                                          *)
(*                                                                         *)
(* A handler runs to its first await as one step; what follows an await    *)
(* is a later step of its own.  A handler's reads of plan, docState,       *)
(* activeStepId and isProcessing are reads of the values of the render it  *)
(* was created in: the state at the moment it is invoked.  The parts of    *)
(* the handler that run after an await still read those captured values;   *)
(* they are kept in the in-flight record of the call.  Functional updates  *)
(* (setPlan(prev => ...)) read the live state.                             *)
(*                                                                         *)
(* The settings dialog's visibility (isSettingsOpen) is presentation       *)
(* state that no handler reads; it is left out, and a handler that would   *)
(* open the dialog only returns.                                           *)
(***************************************************************************)
EXTENDS Integers, Sequences, FiniteSets, TLC

\* ---------------------------------------------------------------- bounds
MaxSteps == 2
MaxVersion == 3
MaxClock == 2

\* ---------------------------------------------------------------- values
Null == "null"
Missing == "undefined"

PENDING == "PENDING"
IN_PROGRESS == "IN_PROGRESS"
COMPLETED == "COMPLETED"
FAILED == "FAILED"

StepStatus == {PENDING, IN_PROGRESS, COMPLETED, FAILED}

\* Texts a user can submit for analysis (InputSection passes them on only
\* when they have more than 10 non-blank characters).
InputTexts == {"T"}

\* What the revision service can answer: a parsed JSON object, returned as it
\* is, with or without its two fields.
ExecResults ==
  { [revisedText |-> "v2", diffSummary |-> "d"],
    [revisedText |-> Missing, diffSummary |-> "d"],
    [revisedText |-> "v2", diffSummary |-> Missing] }

\* Messages of a thrown error: err.message, possibly empty.
ErrMessages == {"E", Missing}

\* What the analysis service can answer: the analysis object (or none) and
\* the ids of its steps (an id may be missing, ids may repeat).
RawAnalyses == {"A1", "A2", Missing}
RawStepLists == { <<>>, <<"a", "a">>, <<"a", Missing>> }

\* Math.random().toString(36).substr(2, 9)
RandomIds == {"a", "r"}

\* Names and descriptions typed into the add-step form.
AddNames == {"un"}
AddDescs == {"ud"}

\* ----------------------------------------------------------------- state
VARIABLES
  docState,        \* useState<DocumentState>
  plan,            \* useState<AgentPlan | null>
  activeStepId,    \* useState<string | null>
  isProcessing,    \* the busy flag
  isAutoRunning,
  error,           \* useState<string | null>
  apiKey,          \* config.apiKey is non-empty
  isAdding,        \* PlanOverview: the add-step form is open
  now,             \* Date.now()
  inflight,        \* the handler calls suspended at an await
  completedCount,  \* history: steps that became COMPLETED since the plan was created
  lastEvent        \* history: what the last step did (a rejection, an end of a call)

vars == << docState, plan, activeStepId, isProcessing, isAutoRunning, error,
           apiKey, isAdding, now, inflight, completedCount, lastEvent >>

EmptyDoc == [originalText |-> "", currentText |-> "", version |-> 0]

\* plan === null
NoPlan == [present |-> FALSE, analysis |-> Missing, steps |-> << >>]

HasPlan == plan.present

NoEvent == [type |-> "none"]

\* -------------------------------------------------------------- helpers
Min(S) == CHOOSE x \in S : \A y \in S : x <= y

RemoveAt(s, k) == SubSeq(s, 1, k - 1) \o SubSeq(s, k + 1, Len(s))

\* Mutant of FindIndex: an id that matches no step yields the first index.
FindIndexFirstOnMiss(steps, id) ==
  LET hits == { i \in 1..Len(steps) : steps[i].id = id }
  IN IF hits = {} THEN (IF Len(steps) = 0 THEN 0 ELSE 1) ELSE Min(hits)

\* Array.prototype.findIndex(s => s.id === id), 1-based; 0 stands for -1.
FindIndex(steps, id) ==
  LET hits == { i \in 1..Len(steps) : steps[i].id = id }
  IN IF hits = {} THEN 0 ELSE Min(hits)

\* Array.prototype.filter(s => s.id !== id)
RECURSIVE FilterOut(_, _)
FilterOut(steps, id) ==
  IF steps = << >> THEN << >>
  ELSE IF Head(steps).id = id THEN FilterOut(Tail(steps), id)
       ELSE << Head(steps) >> \o FilterOut(Tail(steps), id)

\* A JS falsy string value: '' or undefined / null.
Falsy(s) == s \in {"", Missing, Null}

\* Array assignment newSteps[i] = {...newSteps[i], ...}: an index past the end
\* extends the array, and the spread of the missing element yields no field.
HoleStep ==
  [id |-> Missing, name |-> Missing, description |-> Missing,
   reasoning |-> Missing, status |-> Missing, output |-> Missing,
   diffSummary |-> Missing]

StepAt(steps, i) == IF i \in 1..Len(steps) THEN steps[i] ELSE HoleStep

AssignAt(steps, i, step) ==
  IF i \in 1..Len(steps) THEN [steps EXCEPT ![i] = step]
  ELSE steps \o [j \in 1..(i - Len(steps)) |->
                   IF j = i - Len(steps) THEN step ELSE HoleStep]

\* { ...step, status }
WithStatus(step, status) == [step EXCEPT !.status = status]

\* Mutant of CompleteStep: the summary of the change overwrites the step's
\* description.
CompleteStepRewrites(step, result) ==
  [step EXCEPT !.status = COMPLETED,
               !.description = result.diffSummary,
               !.output = result.revisedText,
               !.diffSummary = result.diffSummary]

\* Mutant of CompleteStep: the result is not committed on the step.
CompleteStepStatusOnly(step, result) == [step EXCEPT !.status = COMPLETED]

\* { ...step, status: COMPLETED, output: result.revisedText,
\*   diffSummary: result.diffSummary }
CompleteStep(step, result) ==
  [step EXCEPT !.status = COMPLETED,
               !.output = result.revisedText,
               !.diffSummary = result.diffSummary]

\* Mutant of AdvanceDoc: the revised text becomes the original text too.
AdvanceDocMovesOriginal(prev, result) ==
  [prev EXCEPT !.originalText = result.revisedText,
               !.currentText = result.revisedText,
               !.version = prev.version + 1]

\* Mutant of AdvanceDoc: the version is not advanced.
AdvanceDocNoBump(prev, result) ==
  [prev EXCEPT !.currentText = result.revisedText]

\* setDocState(prev => ({...prev, currentText: result.revisedText,
\*                       version: prev.version + 1}))
AdvanceDoc(prev, result) ==
  [prev EXCEPT !.currentText = result.revisedText,
               !.version = prev.version + 1]

\* Mutant of SeedDoc: the version is left at 0.
SeedDocVersionZero(text) ==
  [originalText |-> text, currentText |-> text, version |-> 0]

\* setDocState({originalText: text, currentText: text, version: 1})
SeedDoc(text) == [originalText |-> text, currentText |-> text, version |-> 1]

\* Mutant of NextPending: the scan takes up every step, whatever its status.
NextPendingAny(steps, from) ==
  IF from <= Len(steps) THEN from ELSE 0

\* Mutant of NextPending: a FAILED step is taken up again by the scan.
NextPendingOrFailed(steps, from) ==
  LET hits == { i \in from..Len(steps) : steps[i].status \in {PENDING, FAILED} }
  IN IF hits = {} THEN 0 ELSE Min(hits)

\* The first PENDING step at or after index from (0: none): the scan of the
\* for loop of handleAutoRun.
NextPending(steps, from) ==
  LET hits == { i \in from..Len(steps) : steps[i].status = PENDING }
  IN IF hits = {} THEN 0 ELSE Min(hits)

\* Steps that are COMPLETED in new and were not at the same index in old.
NewlyCompleted(old, new) ==
  Cardinality({ i \in 1..Len(new) :
                  /\ new[i].status = COMPLETED
                  /\ StepAt(old, i).status # COMPLETED })

\* ------------------------------------------------------------- services
\* s.id || Math.random().toString(36).substr(2, 9)
StepIdChoices(rawId) == IF Falsy(rawId) THEN RandomIds ELSE {rawId}

\* Mutant of ServiceStep: the status is not set to PENDING; the step keeps a
\* status the service sent.
ServiceStepKeepsStatus(id) ==
  [id |-> id, name |-> "n", description |-> "d", reasoning |-> "r",
   status |-> COMPLETED, output |-> Missing, diffSummary |-> Missing]

\* { ...s, id: ..., status: 'PENDING' }
ServiceStep(id) ==
  [id |-> id, name |-> "n", description |-> "d", reasoning |-> "r",
   status |-> PENDING, output |-> Missing, diffSummary |-> Missing]

ServiceIds == RandomIds \cup { id \in UNION { { raw[i] : i \in 1..Len(raw) } : raw \in RawStepLists } : ~Falsy(id) }

IdChoices(raw) ==
  { ids \in [1..Len(raw) -> ServiceIds] :
      \A i \in 1..Len(raw) : ids[i] \in StepIdChoices(raw[i]) }

\* analyzeAndPlan, when it returns: { analysis: result.analysis, steps }.
\* The analysis is passed on as it came, with no check of its shape.
PlansFrom(a, raw) ==
  { [present |-> TRUE, analysis |-> a,
     steps |-> [i \in 1..Len(raw) |-> ServiceStep(ids[i])]] :
      ids \in IdChoices(raw) }

GeneratedPlans ==
  UNION { PlansFrom(a, raw) : a \in RawAnalyses, raw \in RawStepLists }

\* executeStep reads analysis.category before it calls the service: with no
\* analysis object it throws.  Otherwise it returns JSON.parse of the answer.
ExecutorAnswers(analysis) == IF analysis = Missing THEN {} ELSE ExecResults

\* ------------------------------------------------------------- rendering
\* PlanOverview reads plan.analysis.category while rendering: with a plan
\* whose analysis is missing the render throws and the application unmounts.
RenderCrashes == HasPlan /\ plan.analysis = Missing

\* --------------------------------------------------------- history records
Rejected(op, arg, why) ==
  [type |-> "rejected", op |-> op, arg |-> arg, why |-> why]

\* The end of a call: what it was, how it ended (result: the executor's answer,
\* or the plan an analysis returned), what it had seen when invoked.
Ended(call, ok, result) ==
  [type |-> "ended", kind |-> call.kind, ok |-> ok, idx |-> call.idx,
   req |-> call.req, text |-> call.text, result |-> result,
   startSteps |-> call.startSteps,
   startDoc |-> call.startDoc, called |-> call.called, done |-> call.done]

\* A deletion: the id it was asked to delete and the step list it found.
Deleted(stepId, before) ==
  [type |-> "deleted", arg |-> stepId, before |-> before]

\* An append: the step list it found.
Added(before) == [type |-> "added", before |-> before]

\* A discard of the project: the document state it found.
Discarded(before) == [type |-> "discarded", before |-> before]

NoResult == [revisedText |-> Missing, diffSummary |-> Missing]

\* A handler call suspended at an await, with the values it captured.
Call(kind, text, idx, steps, analysis) ==
  [kind |-> kind, phase |-> "call", text |-> text, idx |-> idx, req |-> Null,
   steps |-> steps, analysis |-> analysis, active |-> activeStepId,
   startSteps |-> plan.steps, startDoc |-> docState,
   called |-> IF kind = "step" THEN << idx >> ELSE << >>, done |-> << >>]

\* ------------------------------------------------------------- handlers
\* err.message || fallback
MessageOr(msg, fallback) == IF Falsy(msg) THEN fallback ELSE msg

\* Mutant of NotConfigured: the API key is not looked at.
NotConfiguredIgnored == FALSE

\* if (!config.apiKey) { setIsSettingsOpen(true); return; }
NotConfigured == ~apiKey

\* --- handleAnalyze
handleAnalyze(text) ==
  IF NotConfigured
  THEN /\ lastEvent' = Rejected("analyze", text, "NotConfigured")
       /\ UNCHANGED << docState, plan, activeStepId, isProcessing,
                       isAutoRunning, error, apiKey, isAdding, now, inflight,
                       completedCount >>
  ELSE /\ isProcessing' = TRUE
       /\ error' = Null
       /\ inflight' = Append(inflight, Call("analyze", text, 0, << >>, Missing))
       /\ lastEvent' = NoEvent
       /\ UNCHANGED << docState, plan, activeStepId, isAutoRunning, apiKey,
                       isAdding, now, completedCount >>

AnalyzeReturn(k, generatedPlan) ==
  /\ inflight[k].kind = "analyze"
  /\ plan' = generatedPlan
  /\ docState' = SeedDoc(inflight[k].text)
  /\ isProcessing' = FALSE
  /\ inflight' = RemoveAt(inflight, k)
  /\ completedCount' = 0
  /\ lastEvent' = Ended(inflight[k], TRUE, generatedPlan)
  /\ UNCHANGED << activeStepId, isAutoRunning, error, apiKey, isAdding, now >>

\* Mutant of AnalyzeFail: the document state is seeded although the call failed.
AnalyzeFailSeedsDoc(k, msg) ==
  /\ inflight[k].kind = "analyze"
  /\ error' = MessageOr(msg, "analysis failed")
  /\ docState' = SeedDoc(inflight[k].text)
  /\ isProcessing' = FALSE
  /\ inflight' = RemoveAt(inflight, k)
  /\ lastEvent' = Ended(inflight[k], FALSE, NoResult)
  /\ UNCHANGED << plan, activeStepId, isAutoRunning, apiKey,
                  isAdding, now, completedCount >>

AnalyzeFail(k, msg) ==
  /\ inflight[k].kind = "analyze"
  /\ error' = MessageOr(msg, "analysis failed")
  /\ isProcessing' = FALSE
  /\ inflight' = RemoveAt(inflight, k)
  /\ lastEvent' = Ended(inflight[k], FALSE, NoResult)
  /\ UNCHANGED << docState, plan, activeStepId, isAutoRunning, apiKey,
                  isAdding, now, completedCount >>

\* --- handleNewIteration
handleNewIteration ==
  IF Falsy(docState.currentText)
  THEN /\ lastEvent' = Rejected("iterate", Null, "NoText")
       /\ UNCHANGED << docState, plan, activeStepId, isProcessing,
                       isAutoRunning, error, apiKey, isAdding,
                       now, inflight, completedCount >>
  ELSE IF NotConfigured
  THEN /\ lastEvent' = Rejected("iterate", Null, "NotConfigured")
       /\ UNCHANGED << docState, plan, activeStepId, isProcessing,
                       isAutoRunning, error, apiKey, isAdding, now, inflight,
                       completedCount >>
  ELSE /\ isProcessing' = TRUE
       /\ error' = Null
       /\ inflight' = Append(inflight,
                        Call("iterate", docState.currentText, 0, << >>, Missing))
       /\ lastEvent' = NoEvent
       /\ UNCHANGED << docState, plan, activeStepId, isAutoRunning, apiKey,
                       isAdding, now, completedCount >>

\* Mutant of IterateReturn: the document state is seeded again, as
\* handleAnalyze does.
IterateReturnReseeds(k, generatedPlan) ==
  /\ inflight[k].kind = "iterate"
  /\ plan' = generatedPlan
  /\ docState' = SeedDoc(inflight[k].text)
  /\ isProcessing' = FALSE
  /\ inflight' = RemoveAt(inflight, k)
  /\ lastEvent' = Ended(inflight[k], TRUE, generatedPlan)
  /\ UNCHANGED << activeStepId, isAutoRunning, error, apiKey,
                  isAdding, now, completedCount >>

IterateReturn(k, generatedPlan) ==
  /\ inflight[k].kind = "iterate"
  /\ plan' = generatedPlan
  /\ isProcessing' = FALSE
  /\ inflight' = RemoveAt(inflight, k)
  /\ lastEvent' = Ended(inflight[k], TRUE, generatedPlan)
  /\ UNCHANGED << docState, activeStepId, isAutoRunning, error, apiKey,
                  isAdding, now, completedCount >>

\* Mutant of IterateFail: the finally block does not clear the busy flag.
IterateFailKeepsBusy(k, msg) ==
  /\ inflight[k].kind = "iterate"
  /\ error' = MessageOr(msg, "iteration failed")
  /\ inflight' = RemoveAt(inflight, k)
  /\ lastEvent' = Ended(inflight[k], FALSE, NoResult)
  /\ UNCHANGED << docState, plan, activeStepId, isProcessing, isAutoRunning,
                  apiKey, isAdding, now, completedCount >>

IterateFail(k, msg) ==
  /\ inflight[k].kind = "iterate"
  /\ error' = MessageOr(msg, "iteration failed")
  /\ isProcessing' = FALSE
  /\ inflight' = RemoveAt(inflight, k)
  /\ lastEvent' = Ended(inflight[k], FALSE, NoResult)
  /\ UNCHANGED << docState, plan, activeStepId, isAutoRunning, apiKey,
                  isAdding, now, completedCount >>

\* --- handleAddStep
\* Mutant of NewStep: the new step is created as already running.
NewStepInProgress(name, description) ==
  [id |-> ToString(now), name |-> name, description |-> description,
   reasoning |-> "user", status |-> IN_PROGRESS, output |-> Missing,
   diffSummary |-> Missing]

NewStep(name, description) ==
  [id |-> ToString(now), name |-> name, description |-> description,
   reasoning |-> "user", status |-> PENDING, output |-> Missing,
   diffSummary |-> Missing]

handleAddStep(name, description) ==
  /\ plan' = IF ~HasPlan THEN plan
             ELSE [plan EXCEPT !.steps = Append(plan.steps, NewStep(name, description))]
  /\ lastEvent' = IF ~HasPlan THEN Rejected("addStep", name, "NoPlan")
                 ELSE Added(plan.steps)
  /\ UNCHANGED << docState, activeStepId, isProcessing, isAutoRunning, error,
                  apiKey, now, inflight, completedCount >>

\* --- handleDeleteStep
handleDeleteStep(stepId) ==
  /\ plan' = IF ~HasPlan THEN plan
             ELSE [plan EXCEPT !.steps = FilterOut(plan.steps, stepId)]
  /\ lastEvent' = IF ~HasPlan THEN Rejected("deleteStep", stepId, "NoPlan")
                 ELSE Deleted(stepId, plan.steps)
  /\ UNCHANGED << docState, activeStepId, isProcessing, isAutoRunning, error,
                  apiKey, isAdding, now, inflight,
                  completedCount >>

\* Mutant of StepExecutionBlocked: the busy flag is not consulted.
StepExecutionBlockedNoBusy == ~HasPlan

\* --- handleStepExecution
\* if (!plan || isProcessing) return;
StepExecutionBlocked == ~HasPlan \/ isProcessing

handleStepExecution(stepId) ==
  LET stepIndex == FindIndex(plan.steps, stepId) IN
  IF StepExecutionBlocked
  THEN /\ lastEvent' = Rejected("runStep", stepId, IF HasPlan THEN "Busy" ELSE "NoPlan")
       /\ UNCHANGED << docState, plan, activeStepId, isProcessing,
                       isAutoRunning, error, apiKey, isAdding,
                       now, inflight, completedCount >>
  ELSE IF NotConfigured
  THEN /\ lastEvent' = Rejected("runStep", stepId, "NotConfigured")
       /\ UNCHANGED << docState, plan, activeStepId, isProcessing,
                       isAutoRunning, error, apiKey, isAdding, now, inflight,
                       completedCount >>
  ELSE IF stepIndex = 0
  THEN /\ lastEvent' = Rejected("runStep", stepId, "NotFound")
       /\ UNCHANGED << docState, plan, activeStepId, isProcessing,
                       isAutoRunning, error, apiKey, isAdding,
                       now, inflight, completedCount >>
  ELSE /\ activeStepId' = stepId
       /\ isProcessing' = TRUE
       /\ error' = Null
       /\ plan' = [plan EXCEPT !.steps =
                     AssignAt(plan.steps, stepIndex,
                              WithStatus(plan.steps[stepIndex], IN_PROGRESS))]
       /\ inflight' = Append(inflight,
                        [Call("step", docState.currentText, stepIndex,
                              plan.steps, plan.analysis)
                           EXCEPT !.req = stepId])
       /\ lastEvent' = NoEvent
       /\ UNCHANGED << docState, isAutoRunning, apiKey, isAdding, now, completedCount >>

StepReturn(k, result) ==
  LET call == inflight[k] IN
  /\ call.kind = "step"
  /\ result \in ExecutorAnswers(call.analysis)
  /\ docState' = AdvanceDoc(docState, result)
  /\ plan' = IF ~HasPlan THEN plan
             ELSE [plan EXCEPT !.steps =
                     AssignAt(plan.steps, call.idx,
                              CompleteStep(StepAt(plan.steps, call.idx), result))]
  /\ isProcessing' = FALSE
  /\ activeStepId' = Null
  /\ inflight' = RemoveAt(inflight, k)
  /\ completedCount' = completedCount + NewlyCompleted(plan.steps, plan'.steps)
  /\ lastEvent' = Ended(call, TRUE, result)
  /\ UNCHANGED << isAutoRunning, error, apiKey, isAdding, now >>

\* Mutant of FailStep: the status is not changed.
FailStepKeepsStatus(step) == step

\* { ...newSteps[stepIndex], status: StepStatus.FAILED }
FailStep(step) == WithStatus(step, FAILED)

\* Mutant of StepFail: a failed run takes the text back to the original text.
StepFailRollsBack(k, msg) ==
  LET call == inflight[k] IN
  /\ call.kind = "step"
  /\ error' = MessageOr(msg, "step failed")
  /\ plan' = IF ~HasPlan THEN plan
             ELSE [plan EXCEPT !.steps =
                     AssignAt(plan.steps, call.idx,
                              FailStep(StepAt(plan.steps, call.idx)))]
  /\ docState' = [docState EXCEPT !.currentText = docState.originalText]
  /\ isProcessing' = FALSE
  /\ activeStepId' = Null
  /\ inflight' = RemoveAt(inflight, k)
  /\ lastEvent' = Ended(call, FALSE, NoResult)
  /\ UNCHANGED << isAutoRunning, apiKey, isAdding, now, completedCount >>

StepFail(k, msg) ==
  LET call == inflight[k] IN
  /\ call.kind = "step"
  /\ error' = MessageOr(msg, "step failed")
  /\ plan' = IF ~HasPlan THEN plan
             ELSE [plan EXCEPT !.steps =
                     AssignAt(plan.steps, call.idx,
                              FailStep(StepAt(plan.steps, call.idx)))]
  /\ isProcessing' = FALSE
  /\ activeStepId' = Null
  /\ inflight' = RemoveAt(inflight, k)
  /\ lastEvent' = Ended(call, FALSE, NoResult)
  /\ UNCHANGED << docState, isAutoRunning, apiKey, isAdding,
                  now, completedCount >>

\* Mutant of AutoRunBlocked: the busy flag is not consulted.
AutoRunBlockedNoBusy == ~HasPlan

\* --- handleAutoRun
\* if (!plan || isProcessing) return;
AutoRunBlocked == ~HasPlan \/ isProcessing

\* Mutant of NextChainText: the chain keeps the text it was invoked with.
NextChainTextStale(currentText, result) == currentText

\* currentText = result.revisedText
NextChainText(currentText, result) == result.revisedText

\* Mutant of RunningSteps: every remaining PENDING step is marked at once.
RunningStepsAll(steps, i) ==
  [j \in 1..Len(steps) |->
     IF j >= i /\ steps[j].status = PENDING
     THEN WithStatus(steps[j], IN_PROGRESS) ELSE steps[j]]

\* runningSteps = [...currentSteps]; runningSteps[i] = { ...step, status: IN_PROGRESS }
RunningSteps(steps, i) == AssignAt(steps, i, WithStatus(steps[i], IN_PROGRESS))

\* The for loop over currentSteps from index from, up to its next await or to
\* its end (the finally block).  starting: the call is being made now.
AutoLoop(k, call, from, starting) ==
  LET i == NextPending(call.steps, from)
      runningSteps == RunningSteps(call.steps, i)
      next == [call EXCEPT !.phase = "call", !.idx = i,
                           !.steps = runningSteps, !.called = Append(@, i)]
  IN IF i = 0
     THEN /\ isProcessing' = FALSE
          /\ isAutoRunning' = FALSE
          /\ activeStepId' = Null
          /\ plan' = plan
          /\ inflight' = IF starting THEN inflight ELSE RemoveAt(inflight, k)
          /\ lastEvent' = Ended(call, TRUE, NoResult)
     ELSE /\ isProcessing' = IF starting THEN TRUE ELSE isProcessing
          /\ isAutoRunning' = IF starting THEN TRUE ELSE isAutoRunning
          /\ activeStepId' = call.steps[i].id
          /\ plan' = IF HasPlan THEN [plan EXCEPT !.steps = runningSteps] ELSE plan
          /\ inflight' = IF starting THEN Append(inflight, next)
                          ELSE [inflight EXCEPT ![k] = next]
          /\ lastEvent' = NoEvent

handleAutoRun ==
  IF AutoRunBlocked
  THEN /\ lastEvent' = Rejected("runAll", Null, IF HasPlan THEN "Busy" ELSE "NoPlan")
       /\ UNCHANGED << docState, plan, activeStepId, isProcessing,
                       isAutoRunning, error, apiKey, isAdding,
                       now, inflight, completedCount >>
  ELSE IF NotConfigured
  THEN /\ lastEvent' = Rejected("runAll", Null, "NotConfigured")
       /\ UNCHANGED << docState, plan, activeStepId, isProcessing,
                       isAutoRunning, error, apiKey, isAdding, now, inflight,
                       completedCount >>
  ELSE /\ error' = Null
       /\ AutoLoop(0,
                   Call("auto", docState.currentText, 0, plan.steps, plan.analysis),
                   1, TRUE)
       /\ UNCHANGED << docState, apiKey, isAdding, now,
                       completedCount >>

AutoStepReturn(k, result) ==
  LET call == inflight[k]
      completedSteps == AssignAt(call.steps, call.idx,
                                 CompleteStep(call.steps[call.idx], result))
  IN
  /\ call.kind = "auto"
  /\ call.phase = "call"
  /\ result \in ExecutorAnswers(call.analysis)
  /\ plan' = IF HasPlan THEN [plan EXCEPT !.steps = completedSteps] ELSE plan
  /\ docState' = AdvanceDoc(docState, result)
  /\ inflight' = [inflight EXCEPT ![k] =
                    [call EXCEPT !.phase = "pause",
                                 !.text = NextChainText(call.text, result),
                                 !.steps = completedSteps,
                                 !.done = Append(@, [idx |-> call.idx,
                                                     result |-> result])]]
  /\ completedCount' = completedCount + NewlyCompleted(plan.steps, plan'.steps)
  /\ lastEvent' = NoEvent
  /\ UNCHANGED << activeStepId, isProcessing, isAutoRunning, error, apiKey,
                  isAdding, now >>

\* Mutant of AutoPauseElapsed: the pause between two steps never resolves.
AutoPauseHangs(k) == FALSE

\* Mutant of AutoPauseElapsed: after the pause the loop reads the live step
\* list instead of its snapshot.
AutoPauseRereads(k) ==
  LET call == [inflight[k] EXCEPT !.steps = plan.steps] IN
  /\ call.kind = "auto"
  /\ call.phase = "pause"
  /\ AutoLoop(k, call, call.idx + 1, FALSE)
  /\ UNCHANGED << docState, error, apiKey, isAdding, now,
                  completedCount >>

\* await new Promise(resolve => setTimeout(resolve, 800)), then the loop goes on
AutoPauseElapsed(k) ==
  LET call == inflight[k] IN
  /\ call.kind = "auto"
  /\ call.phase = "pause"
  /\ AutoLoop(k, call, call.idx + 1, FALSE)
  /\ UNCHANGED << docState, error, apiKey, isAdding, now,
                  completedCount >>

\* The id the catch block of handleAutoRun marks FAILED: the activeStepId the
\* handler captured when it was invoked.
FailedStepId(call) == call.active

AutoStepFail(k, msg) ==
  LET call == inflight[k]
      idx == FindIndex(plan.steps, FailedStepId(call))
  IN
  /\ call.kind = "auto"
  /\ call.phase = "call"
  /\ error' = MessageOr(msg, "auto run interrupted")
  /\ plan' = IF Falsy(FailedStepId(call)) \/ ~HasPlan \/ idx = 0 THEN plan
             ELSE [plan EXCEPT !.steps =
                     AssignAt(plan.steps, idx, FailStep(plan.steps[idx]))]
  /\ isProcessing' = FALSE
  /\ isAutoRunning' = FALSE
  /\ activeStepId' = Null
  /\ inflight' = RemoveAt(inflight, k)
  /\ lastEvent' = Ended(call, FALSE, NoResult)
  /\ UNCHANGED << docState, apiKey, isAdding, now,
                  completedCount >>

\* --- the header's new-project button
NewProject ==
  /\ plan' = NoPlan
  /\ docState' = EmptyDoc
  /\ isAdding' = FALSE
  /\ completedCount' = 0
  /\ lastEvent' = Discarded(docState)
  /\ UNCHANGED << activeStepId, isProcessing, isAutoRunning, error, apiKey,
                  now, inflight >>

\* --------------------------------------------------------------- controls
\* The application is mounted and rendering.
Mounted == ~RenderCrashes

\* InputSection is rendered while there is no plan; its button is disabled
\* while isAnalyzing.
AnalyzeOffered == ~HasPlan /\ ~isProcessing

\* Mutant of NewIterationDisabled: the button is never disabled.
NewIterationNeverDisabled == FALSE

\* PlanOverview: the footer button, disabled={isProcessing}.
NewIterationDisabled == isProcessing

hasPendingSteps == \E i \in 1..Len(plan.steps) : plan.steps[i].status = PENDING

\* PlanOverview: the auto-run button, rendered when hasPendingSteps,
\* disabled={isProcessing}.
AutoRunOffered == HasPlan /\ hasPendingSteps /\ ~isProcessing

\* Mutant of isNext: the status of the preceding step is not consulted.
isNextAnyPending(i) ==
  /\ plan.steps[i].status = PENDING
  /\ Falsy(activeStepId)
  /\ ~isProcessing

\* PlanOverview: isNext = isPending && !activeStepId && !isProcessing &&
\* (index === 0 || plan.steps[index - 1].status === COMPLETED)
isNext(i) ==
  /\ plan.steps[i].status = PENDING
  /\ Falsy(activeStepId)
  /\ ~isProcessing
  /\ (IF i = 1 THEN TRUE ELSE plan.steps[i - 1].status = COMPLETED)

\* PlanOverview: the run button of step i, {isNext && !isAutoRunning && ...}.
StartStepOffered(i) == HasPlan /\ isNext(i) /\ ~isAutoRunning

canDelete(i) == plan.steps[i].status = PENDING

\* Mutant of DeleteOffered: the button is rendered while busy too.
DeleteOfferedWhileBusy(i) == HasPlan /\ canDelete(i)

\* PlanOverview: the delete button of step i, {canDelete && !isProcessing && ...}.
DeleteOffered(i) == HasPlan /\ canDelete(i) /\ ~isProcessing

\* PlanOverview: the button that opens the add-step form.
AddFormOffered == HasPlan /\ ~isAdding /\ ~isAutoRunning

\* Mutant of NewProjectOffered: the button is not disabled while busy.
NewProjectOfferedWhileBusy == HasPlan

\* The header's new-project button: rendered with a plan, disabled={isProcessing}.

NewProjectOffered == HasPlan /\ ~isProcessing

\* A run is started only while the version is below the bound.
RunsLeft == docState.version < MaxVersion

ClickAnalyze(text) ==
  /\ Mounted /\ AnalyzeOffered
  /\ handleAnalyze(text)

\* A click on the footer button; a disabled button dispatches nothing.
ClickNewIteration ==
  /\ Mounted /\ HasPlan
  /\ IF NewIterationDisabled
     THEN /\ lastEvent' = Rejected("iterate", Null, "Disabled")
          /\ UNCHANGED << docState, plan, activeStepId, isProcessing,
                          isAutoRunning, error, apiKey, isAdding, now,
                          inflight, completedCount >>
     ELSE handleNewIteration

ClickAutoRun ==
  /\ Mounted /\ AutoRunOffered /\ RunsLeft
  /\ handleAutoRun

ClickStartStep(i) ==
  /\ Mounted /\ StartStepOffered(i) /\ RunsLeft
  /\ handleStepExecution(plan.steps[i].id)

ClickDeleteStep(i) ==
  /\ Mounted /\ DeleteOffered(i)
  /\ handleDeleteStep(plan.steps[i].id)

ClickOpenAddForm ==
  /\ Mounted /\ AddFormOffered
  /\ isAdding' = TRUE
  /\ lastEvent' = NoEvent
  /\ UNCHANGED << docState, plan, activeStepId, isProcessing, isAutoRunning,
                  error, apiKey, now, inflight, completedCount >>

ClickCancelAddForm ==
  /\ Mounted /\ HasPlan /\ isAdding
  /\ isAdding' = FALSE
  /\ lastEvent' = NoEvent
  /\ UNCHANGED << docState, plan, activeStepId, isProcessing, isAutoRunning,
                  error, apiKey, now, inflight, completedCount >>

\* handleAddSubmit
ClickSubmitAddForm(name, description) ==
  /\ Mounted /\ HasPlan /\ isAdding
  /\ Len(plan.steps) < MaxSteps
  /\ handleAddStep(name, description)
  /\ isAdding' = FALSE

ClickNewProject ==
  /\ Mounted /\ NewProjectOffered
  /\ NewProject

\* SettingsDialog handleSave: onSave(config), that is handleSaveConfig
SaveConfig(key) ==
  /\ Mounted
  /\ apiKey' = key
  /\ lastEvent' = NoEvent
  /\ UNCHANGED << docState, plan, activeStepId, isProcessing, isAutoRunning,
                  error, isAdding, now, inflight, completedCount >>

\* The error banner's close button.
DismissError ==
  /\ Mounted /\ error # Null
  /\ error' = Null
  /\ lastEvent' = NoEvent
  /\ UNCHANGED << docState, plan, activeStepId, isProcessing, isAutoRunning,
                  apiKey, isAdding, now, inflight,
                  completedCount >>

\* Time passes: Date.now() grows.
Tick ==
  /\ now < MaxClock
  /\ now' = now + 1
  /\ lastEvent' = NoEvent
  /\ UNCHANGED << docState, plan, activeStepId, isProcessing, isAutoRunning,
                  error, apiKey, isAdding, inflight,
                  completedCount >>

\* The remote call of in-flight call k returns or throws; the pause of a
\* chain elapses.
Resume(k) ==
  /\ Mounted
  /\ \/ \E p \in GeneratedPlans : AnalyzeReturn(k, p)
     \/ \E m \in ErrMessages : AnalyzeFail(k, m)
     \/ \E p \in GeneratedPlans : IterateReturn(k, p)
     \/ \E m \in ErrMessages : IterateFail(k, m)
     \/ \E r \in ExecResults : StepReturn(k, r)
     \/ \E m \in ErrMessages : StepFail(k, m)
     \/ \E r \in ExecResults : AutoStepReturn(k, r)
     \/ \E m \in ErrMessages : AutoStepFail(k, m)
     \/ AutoPauseElapsed(k)

\* ---------------------------------------------------------- specification
Init ==
  /\ docState = EmptyDoc
  /\ plan = NoPlan
  /\ activeStepId = Null
  /\ isProcessing = FALSE
  /\ isAutoRunning = FALSE
  /\ error = Null
  /\ apiKey \in BOOLEAN
  /\ isAdding = FALSE
  /\ now = 1
  /\ inflight = << >>
  /\ completedCount = 0
  /\ lastEvent = NoEvent

\* The application as its user drives it: every handler is invoked through
\* its control, when the control is rendered and enabled.
Next ==
  \/ \E t \in InputTexts : ClickAnalyze(t)
  \/ ClickNewIteration
  \/ ClickAutoRun
  \/ \E i \in 1..Len(plan.steps) : ClickStartStep(i)
  \/ \E i \in 1..Len(plan.steps) : ClickDeleteStep(i)
  \/ ClickOpenAddForm
  \/ ClickCancelAddForm
  \/ \E n \in AddNames, d \in AddDescs : ClickSubmitAddForm(n, d)
  \/ ClickNewProject
  \/ \E key \in BOOLEAN : SaveConfig(key)
  \/ DismissError
  \/ Tick
  \/ \E k \in 1..Len(inflight) : Resume(k)

Spec == Init /\ [][Next]_vars

\* The handlers that guard themselves, invoked directly: at any moment, for
\* any step id (one of the plan's or one that matches no step).
DirectIds == { plan.steps[i].id : i \in 1..Len(plan.steps) } \cup {"none"}

DirectRunStep(stepId) ==
  /\ Mounted /\ RunsLeft
  /\ handleStepExecution(stepId)

DirectRunAll ==
  /\ Mounted /\ RunsLeft
  /\ handleAutoRun

NextDirect ==
  \/ Next
  \/ \E id \in DirectIds : DirectRunStep(id)
  \/ DirectRunAll

SpecDirect == Init /\ [][NextDirect]_vars

\* The application driven through its controls with plans one step longer:
\* the add-step form accepts a step while the plan has at most MaxSteps steps.
MaxLongSteps == MaxSteps + 1

\* handleAddSubmit
ClickSubmitAddFormLong(name, description) ==
  /\ Mounted /\ HasPlan /\ isAdding
  /\ Len(plan.steps) < MaxLongSteps
  /\ handleAddStep(name, description)
  /\ isAdding' = FALSE

NextLong ==
  \/ Next
  \/ \E n \in AddNames, d \in AddDescs : ClickSubmitAddFormLong(n, d)

SpecLong == Init /\ [][NextLong]_vars

\* The application with its remote calls and timers completing: a call that is
\* outstanding eventually returns or throws, a pause eventually elapses.
Responsive == WF_vars(\E k \in 1..Len(inflight) : Resume(k))

SpecLive == Init /\ [][Next]_vars /\ Responsive

\* ================================================================= claims
InProgressCount ==
  Cardinality({ i \in 1..Len(plan.steps) : plan.steps[i].status = IN_PROGRESS })

\* The last step was the end of a call of this kind, with this outcome.
JustEnded(kind, ok) ==
  /\ lastEvent.type = "ended"
  /\ lastEvent.kind = kind
  /\ lastEvent.ok = ok

InFlight(kind) == \E k \in 1..Len(inflight) : inflight[k].kind = kind

\* C1: in every reachable state at most one step of the plan is IN_PROGRESS.
C1_AtMostOneInProgress == InProgressCount <= 1

\* C2: whenever a plan exists, version = 1 + the number of transitions of a
\* step to COMPLETED since the plan was first created from text.
C2_VersionCountsCompletions ==
  HasPlan => docState.version = 1 + completedCount

\* C2 witness: a re-analysis has just succeeded after a step had completed.
C2_Witness ==
  /\ JustEnded("iterate", TRUE)
  /\ completedCount >= 1
  /\ docState.version = 1 + completedCount

\* C3: a runStep on a PENDING step whose executor call returned both fields
\* ends with that step COMPLETED carrying the result, currentText = revisedText,
\* version one more than before the call, every other step as it was.
C3_RunStepSuccess ==
  ( /\ JustEnded("step", TRUE)
    /\ lastEvent.startSteps[lastEvent.idx].status = PENDING
    /\ lastEvent.result.revisedText # Missing
    /\ lastEvent.result.diffSummary # Missing )
  => /\ HasPlan
     /\ Len(plan.steps) >= Len(lastEvent.startSteps)
     /\ plan.steps[lastEvent.idx] =
          [lastEvent.startSteps[lastEvent.idx] EXCEPT
             !.status = COMPLETED,
             !.output = lastEvent.result.revisedText,
             !.diffSummary = lastEvent.result.diffSummary]
     /\ docState.currentText = lastEvent.result.revisedText
     /\ docState.originalText = lastEvent.startDoc.originalText
     /\ docState.version = lastEvent.startDoc.version + 1
     /\ \A j \in 1..Len(lastEvent.startSteps) :
          j # lastEvent.idx => plan.steps[j] = lastEvent.startSteps[j]

\* C3 witness: scenario 1, the first of two PENDING steps run with success.
C3_Witness ==
  /\ JustEnded("step", TRUE)
  /\ Len(lastEvent.startSteps) = 2
  /\ lastEvent.idx = 1
  /\ lastEvent.startSteps[1].status = PENDING
  /\ lastEvent.startSteps[2].status = PENDING
  /\ lastEvent.result = [revisedText |-> "v2", diffSummary |-> "d"]
  /\ docState.version = 2

\* C4: when the executor call of a runStep fails, the step ends FAILED,
\* DocumentState is what it was before the call and the busy flag is clear.
C4_RunStepFailure ==
  JustEnded("step", FALSE)
  => /\ HasPlan
     /\ lastEvent.idx <= Len(plan.steps)
     /\ plan.steps[lastEvent.idx].status = FAILED
     /\ plan.steps[lastEvent.idx].id = lastEvent.startSteps[lastEvent.idx].id
     /\ docState = lastEvent.startDoc
     /\ ~isProcessing
     /\ inflight = << >>

\* C4 witness: a runStep has just failed after an earlier step had completed.
C4_Witness ==
  /\ JustEnded("step", FALSE)
  /\ docState.version = 2
  /\ docState.currentText = "v2"

\* C5: when an executor call fails during runAll, the step whose execution
\* failed is FAILED once the chain has ended, and the failure is reported.
C5_ChainFailureMarksFailed ==
  JustEnded("auto", FALSE)
  => /\ lastEvent.idx <= Len(plan.steps)
     /\ plan.steps[lastEvent.idx].status = FAILED
     /\ error # Null

\* The steps after index K that were PENDING when the chain was invoked are
\* still PENDING, and the chain has made no executor call for them.
UntouchedAfter(startSteps, K, called) ==
  \A j \in (K + 1)..Len(startSteps) :
    startSteps[j].status = PENDING
    => /\ j <= Len(plan.steps)
       /\ plan.steps[j] = startSteps[j]
       /\ \A c \in 1..Len(called) : called[c] # j

\* C6: in a runAll chain, no step after the one being executed has left
\* PENDING or been passed to the executor; when the step at index K fails the
\* chain ends with every later step still PENDING and never executed.
C6_NothingAfterFailure ==
  /\ \A k \in 1..Len(inflight) :
       inflight[k].kind = "auto"
       => UntouchedAfter(inflight[k].startSteps, inflight[k].idx, inflight[k].called)
  /\ JustEnded("auto", FALSE)
     => /\ UntouchedAfter(lastEvent.startSteps, lastEvent.idx, lastEvent.called)
        /\ ~InFlight("auto")

\* C6 witness: the chain has just stopped on the failure of step 1 with step 2
\* PENDING behind it.
C6_Witness ==
  /\ JustEnded("auto", FALSE)
  /\ lastEvent.idx = 1
  /\ Len(lastEvent.startSteps) = 2
  /\ lastEvent.startSteps[2].status = PENDING
  /\ plan.steps[2].status = PENDING

\* C7: when a chain stops on a failure, every step it completed before is
\* still COMPLETED with its output, and version has grown by exactly the
\* number of steps the chain completed.
C7_CompletedSurviveFailure ==
  JustEnded("auto", FALSE)
  => /\ \A c \in 1..Len(lastEvent.done) :
          LET i == lastEvent.done[c].idx
              r == lastEvent.done[c].result
          IN /\ i <= Len(plan.steps)
             /\ plan.steps[i].status = COMPLETED
             /\ plan.steps[i].output = r.revisedText
             /\ plan.steps[i].diffSummary = r.diffSummary
             /\ plan.steps[i].id = lastEvent.startSteps[i].id
     /\ docState.version = lastEvent.startDoc.version + Len(lastEvent.done)

\* C7 witness: scenario 2, step 1 completed and step 2 failed; version is 2.
C7_Witness ==
  /\ JustEnded("auto", FALSE)
  /\ lastEvent.idx = 2
  /\ Len(lastEvent.done) = 1
  /\ lastEvent.done[1].idx = 1
  /\ lastEvent.startDoc.version = 1
  /\ docState.version = 2

\* C8: a runStep attempted while a runAll chain is in flight starts no
\* executor call and changes neither plan, DocumentState nor the busy flag.
C8_RunStepRejectedDuringChain ==
  [][ InFlight("auto")
      => /\ ~InFlight("step")'
         /\ (lastEvent'.type = "rejected" /\ lastEvent'.op = "runStep")
            => /\ lastEvent'.why = "Busy"
               /\ UNCHANGED << plan, docState, isProcessing, inflight >> ]_vars

\* C8 witness: a runStep has just been rejected as Busy during a chain.
C8_Witness ==
  /\ lastEvent.type = "rejected"
  /\ lastEvent.op = "runStep"
  /\ lastEvent.why = "Busy"
  /\ InFlight("auto")
  /\ isAutoRunning

\* C9: at no time are two remote calls outstanding: at most one handler call
\* is in flight.
C9_OneCallAtATime == Len(inflight) <= 1

\* C9 witness: a runAll has just been rejected as Busy while the executor call
\* of a runStep is outstanding.
C9_Witness ==
  /\ lastEvent.type = "rejected"
  /\ lastEvent.op = "runAll"
  /\ lastEvent.why = "Busy"
  /\ InFlight("step")

\* C10: no re-analysis is in flight together with a runStep or a runAll: a
\* reanalyze invoked while one of them is in flight calls no Plan Generator.
C10_NoReanalyzeWhileRunning ==
  InFlight("iterate") => ~InFlight("step") /\ ~InFlight("auto")

\* C10 witness: the re-analysis button has just been clicked while a runStep
\* was in flight, and nothing was dispatched.
C10_Witness ==
  /\ lastEvent.type = "rejected"
  /\ lastEvent.op = "iterate"
  /\ InFlight("step")
  /\ ~InFlight("iterate")

\* C11: a deleteStep called with the id of a step that is IN_PROGRESS,
\* COMPLETED or FAILED leaves the step list as it was.
C11_DeleteNonPendingRejected ==
  ( /\ lastEvent.type = "deleted"
    /\ \E i \in 1..Len(lastEvent.before) :
         /\ lastEvent.before[i].id = lastEvent.arg
         /\ lastEvent.before[i].status # PENDING )
  => plan.steps = lastEvent.before

\* C12: no executor call of a runStep is ever in flight for a step that was
\* not PENDING when the runStep was invoked.
C12_RunStepNonPendingRejected ==
  \A k \in 1..Len(inflight) :
    inflight[k].kind = "step"
    => inflight[k].startSteps[inflight[k].idx].status = PENDING

\* This step is a call of runStep with this id: it was turned down, or it
\* started an executor call.
RunStepCalledWith(id) ==
  \/ /\ lastEvent'.type = "rejected"
     /\ lastEvent'.op = "runStep"
     /\ lastEvent'.arg = id
  \/ /\ Len(inflight') = Len(inflight) + 1
     /\ inflight'[Len(inflight')].kind = "step"
     /\ inflight'[Len(inflight')].req = id

\* C13: a runStep called with an id that matches no step of the plan starts
\* no executor call, does not set the busy flag, and leaves the plan and
\* DocumentState unchanged.
C13_RunStepUnknownIdRejected ==
  [][ \A id \in DirectIds :
        ( /\ \A i \in 1..Len(plan.steps) : plan.steps[i].id # id
          /\ RunStepCalledWith(id) )
        => UNCHANGED << plan, docState, isProcessing, activeStepId, inflight >>
    ]_vars

\* C13 witness: the controller is idle with a plan of two steps and a runStep
\* for an id that none of them has was just turned down.
C13_Witness ==
  /\ lastEvent.type = "rejected"
  /\ lastEvent.op = "runStep"
  /\ lastEvent.why = "NotFound"
  /\ HasPlan
  /\ Len(plan.steps) = 2
  /\ \A i \in 1..Len(plan.steps) : plan.steps[i].id # lastEvent.arg
  /\ ~isProcessing
  /\ inflight = << >>

\* This step keeps the plan and its steps' positions: the plan is neither
\* created, replaced nor discarded, and no step is deleted.
PlanKept ==
  /\ HasPlan
  /\ HasPlan'
  /\ lastEvent'.type # "deleted"
  /\ ~( /\ lastEvent'.type = "ended"
        /\ lastEvent'.kind \in {"analyze", "iterate"}
        /\ lastEvent'.ok )

\* C14: while its plan is live a COMPLETED step keeps its status, output and
\* diffSummary in every step of the program (so it is never executed again).
C14_CompletedIsTerminal ==
  [][ PlanKept
      => \A i \in 1..Len(plan.steps) :
           plan.steps[i].status = COMPLETED
           => /\ i <= Len(plan'.steps)
              /\ plan'.steps[i].status = COMPLETED
              /\ plan'.steps[i].output = plan.steps[i].output
              /\ plan'.steps[i].diffSummary = plan.steps[i].diffSummary ]_vars

AllowedTransitions ==
  { << PENDING, IN_PROGRESS >>, << IN_PROGRESS, COMPLETED >>,
    << IN_PROGRESS, FAILED >>, << FAILED, PENDING >> }

\* C15: every change of a step's status is PENDING to IN_PROGRESS,
\* IN_PROGRESS to COMPLETED, IN_PROGRESS to FAILED or FAILED to PENDING.
C15_StatusTransitions ==
  [][ PlanKept
      => \A i \in 1..Len(plan.steps) :
           i <= Len(plan'.steps)
           => \/ plan'.steps[i].status = plan.steps[i].status
              \/ << plan.steps[i].status, plan'.steps[i].status >>
                   \in AllowedTransitions ]_vars

\* Some step of the program takes the step at index i out of FAILED, back to
\* PENDING or into a new run.
CanLeaveFailed(i) ==
  ENABLED ( /\ Next
            /\ HasPlan'
            /\ i <= Len(plan'.steps)
            /\ plan'.steps[i].id = plan.steps[i].id
            /\ plan'.steps[i].status \in {PENDING, IN_PROGRESS} )

\* C16: whenever a step is FAILED and the controller is not busy, the step can
\* be offered again: its run control is rendered, or some operation takes it
\* back to PENDING or into a new run.
C16_FailedStepNotStuck ==
  \A i \in 1..Len(plan.steps) :
    ( /\ Mounted
      /\ HasPlan
      /\ plan.steps[i].status = FAILED
      /\ ~isProcessing )
    => \/ StartStepOffered(i)
       \/ CanLeaveFailed(i)

\* A chain that found startSteps at its invocation and has called the
\* executor for the indices of called: each call was for a step PENDING at
\* the invocation, and each step COMPLETED or FAILED then is as it was.
OnlyPendingCalled(startSteps, called) ==
  /\ \A c \in 1..Len(called) : startSteps[called[c]].status = PENDING
  /\ \A j \in 1..Len(startSteps) :
       startSteps[j].status \in {COMPLETED, FAILED}
       => /\ j <= Len(plan.steps)
          /\ plan.steps[j] = startSteps[j]

\* C17: a runAll chain calls the executor only for steps that are PENDING; a
\* step COMPLETED or FAILED from an earlier run is skipped and keeps its
\* status and fields, during the chain and when it has ended.
C17_ChainSkipsFinishedSteps ==
  /\ \A k \in 1..Len(inflight) :
       inflight[k].kind = "auto"
       => OnlyPendingCalled(inflight[k].startSteps, inflight[k].called)
  /\ (lastEvent.type = "ended" /\ lastEvent.kind = "auto")
     => OnlyPendingCalled(lastEvent.startSteps, lastEvent.called)

\* C17 witness: a chain invoked with step 1 FAILED and step 2 PENDING has
\* ended after calling the executor for step 2 only.
C17_Witness ==
  /\ JustEnded("auto", TRUE)
  /\ Len(lastEvent.startSteps) = 2
  /\ lastEvent.startSteps[1].status = FAILED
  /\ lastEvent.startSteps[2].status = PENDING
  /\ lastEvent.called = << 2 >>
  /\ plan.steps[1].status = FAILED
  /\ plan.steps[2].status = COMPLETED

\* A chain's executor calls so far were made in list order, one at a time,
\* each after the updates of the one before it.
ChainInOrder(call) ==
  /\ \A c \in 1..Len(call.called) :
       c > 1 => call.called[c - 1] < call.called[c]
  /\ Len(call.done) =
       IF call.phase = "call" THEN Len(call.called) - 1 ELSE Len(call.called)
  /\ \A c \in 1..Len(call.done) :
       /\ call.done[c].idx = call.called[c]
       /\ call.done[c].idx <= Len(plan.steps)
       /\ plan.steps[call.done[c].idx].status = COMPLETED
       /\ plan.steps[call.done[c].idx].output = call.done[c].result.revisedText
  /\ call.phase = "call" => call.idx = call.called[Len(call.called)]

\* The text a chain passes to its executor call is DocumentState.currentText,
\* which is the text at the chain's start or the revisedText of the step the
\* chain completed last, with the version advanced once per completed step.
ChainTextCurrent(call) ==
  /\ call.text = docState.currentText
  /\ docState.version = call.startDoc.version + Len(call.done)
  /\ docState.currentText =
       IF call.done = << >> THEN call.startDoc.currentText
       ELSE call.done[Len(call.done)].result.revisedText

\* C18: within runAll the executor calls happen one at a time in list order,
\* and each is passed DocumentState.currentText as left by the preceding
\* successful step of the chain, whose status and DocumentState updates are
\* applied before the next call starts.
C18_ChainOrderAndText ==
  \A k \in 1..Len(inflight) :
    inflight[k].kind = "auto"
    => /\ ChainInOrder(inflight[k])
       /\ ChainTextCurrent(inflight[k])

\* C18 witness: the chain's call for step 2 is outstanding with the text that
\* step 1 produced, step 1 being COMPLETED and the version advanced.
C18_Witness ==
  /\ Len(inflight) = 1
  /\ inflight[1].kind = "auto"
  /\ inflight[1].phase = "call"
  /\ inflight[1].idx = 2
  /\ inflight[1].called = << 1, 2 >>
  /\ inflight[1].startDoc.currentText = "T"
  /\ inflight[1].text = "v2"
  /\ docState.currentText = "v2"
  /\ docState.version = 2
  /\ plan.steps[1].status = COMPLETED
  /\ plan.steps[2].status = IN_PROGRESS

\* A chain makes at most one executor call per step, each for a step that
\* was PENDING when the chain was invoked.
OneCallPerPending(startSteps, called) ==
  /\ \A c, d \in 1..Len(called) : called[c] = called[d] => c = d
  /\ \A c \in 1..Len(called) :
       /\ called[c] \in 1..Len(startSteps)
       /\ startSteps[called[c]].status = PENDING

\* A chain that ended with no failed call has called the executor for every
\* step that was PENDING at its invocation, and each of them is COMPLETED.
AllPendingCompleted(startSteps, called) ==
  \A j \in 1..Len(startSteps) :
    startSteps[j].status = PENDING
    => /\ \E c \in 1..Len(called) : called[c] = j
       /\ j <= Len(plan.steps)
       /\ plan.steps[j].status = COMPLETED

\* C19: a runAll chain always ends when its executor calls return or fail; it
\* calls the executor at most once per step that was PENDING at invocation,
\* and when no call failed every such step is COMPLETED at its end.
C19_ChainTerminates ==
  /\ [] ( /\ \A k \in 1..Len(inflight) :
              inflight[k].kind = "auto"
              => OneCallPerPending(inflight[k].startSteps, inflight[k].called)
          /\ (lastEvent.type = "ended" /\ lastEvent.kind = "auto")
             => OneCallPerPending(lastEvent.startSteps, lastEvent.called)
          /\ JustEnded("auto", TRUE)
             => AllPendingCompleted(lastEvent.startSteps, lastEvent.called) )
  /\ (InFlight("auto") ~> ~InFlight("auto"))

\* C19 witness: a chain invoked on two PENDING steps has ended without a
\* failure after one call for each.
C19_Witness ==
  /\ JustEnded("auto", TRUE)
  /\ Len(lastEvent.startSteps) = 2
  /\ lastEvent.startSteps[1].status = PENDING
  /\ lastEvent.startSteps[2].status = PENDING
  /\ lastEvent.called = << 1, 2 >>
  /\ plan.steps[1].status = COMPLETED
  /\ plan.steps[2].status = COMPLETED
  /\ ~InFlight("auto")

Operations == {"analyze", "iterate", "step", "auto"}

\* C20: the busy flag is set for as long as an operation is in flight, the
\* pauses between the steps of a runAll chain included; it is clear when the
\* operation has ended, with or without a failure; and every operation in
\* flight is eventually followed by a state with the busy flag clear.
C20_BusyClearedAndHeld ==
  /\ [] ( /\ inflight # << >> => isProcessing
          /\ lastEvent.type = "ended" => ~isProcessing )
  /\ \A op \in Operations : InFlight(op) ~> ~isProcessing

\* C20 witness: a chain is in the pause after its first step, with the next
\* step still PENDING and the busy flag set.
C20_Witness ==
  /\ Len(inflight) = 1
  /\ inflight[1].kind = "auto"
  /\ inflight[1].phase = "pause"
  /\ Len(inflight[1].done) = 1
  /\ Len(plan.steps) = 2
  /\ plan.steps[1].status = COMPLETED
  /\ plan.steps[2].status = PENDING
  /\ isProcessing
  /\ isAutoRunning

\* C21: addStep appends exactly one step at the end of the list, PENDING and
\* with no output and no diffSummary; the steps that were there keep their
\* order and all their fields.
C21_AddStepAppendsPending ==
  lastEvent.type = "added"
  => /\ HasPlan
     /\ Len(plan.steps) = Len(lastEvent.before) + 1
     /\ SubSeq(plan.steps, 1, Len(lastEvent.before)) = lastEvent.before
     /\ plan.steps[Len(plan.steps)].status = PENDING
     /\ plan.steps[Len(plan.steps)].output = Missing
     /\ plan.steps[Len(plan.steps)].diffSummary = Missing
     /\ plan.steps[Len(plan.steps)].name \in AddNames
     /\ plan.steps[Len(plan.steps)].description \in AddDescs

\* C21 witness: a step was just appended behind a COMPLETED step.
C21_Witness ==
  /\ lastEvent.type = "added"
  /\ Len(lastEvent.before) = 1
  /\ lastEvent.before[1].status = COMPLETED
  /\ Len(plan.steps) = 2
  /\ plan.steps[1] = lastEvent.before[1]
  /\ plan.steps[2].status = PENDING

\* A chain that found startSteps at its invocation has made no executor call
\* for a step appended since, and every such step of the plan is PENDING with
\* no output.
AppendedUntouched(startSteps, called) ==
  /\ \A c \in 1..Len(called) : called[c] <= Len(startSteps)
  /\ \A j \in (Len(startSteps) + 1)..Len(plan.steps) :
       /\ plan.steps[j].status = PENDING
       /\ plan.steps[j].output = Missing
       /\ plan.steps[j].diffSummary = Missing

\* C22: a step appended while a runAll chain is in flight is not visible to
\* the chain: the chain never calls the executor for it and never changes its
\* status.
C22_AppendedInvisibleToChain ==
  /\ \A k \in 1..Len(inflight) :
       inflight[k].kind = "auto"
       => AppendedUntouched(inflight[k].startSteps, inflight[k].called)
  /\ (lastEvent.type = "ended" /\ lastEvent.kind = "auto")
     => AppendedUntouched(lastEvent.startSteps, lastEvent.called)

\* C22 witness: a chain invoked on one step is in flight, in its pause, and
\* the plan holds a second step appended since.
C22_Witness ==
  /\ Len(inflight) = 1
  /\ inflight[1].kind = "auto"
  /\ inflight[1].phase = "pause"
  /\ Len(inflight[1].startSteps) = 1
  /\ Len(plan.steps) = 2
  /\ plan.steps[2].status = PENDING
  /\ plan.steps[2].reasoning = "user"

\* C23: a step appended while a runStep or a runAll is in flight stays in the
\* plan, as it was appended, in every step the in-flight operation takes; and
\* the append keeps the status the operation has given to its own step.
C23_AppendWhileBusyHarmless ==
  [][ \A k \in 1..Len(inflight) :
        inflight[k].kind \in {"step", "auto"}
        => /\ \A j \in (Len(inflight[k].startSteps) + 1)..Len(plan.steps) :
                /\ j <= Len(plan'.steps)
                /\ plan'.steps[j] = plan.steps[j]
           /\ lastEvent'.type = "added"
              => SubSeq(plan'.steps, 1, Len(plan.steps)) = plan.steps ]_vars

\* C24: no deleteStep takes effect while a runStep or a runAll is in flight:
\* a deletion happens only with the busy flag clear and no call outstanding.
C24_NoDeleteWhileBusy ==
  lastEvent.type = "deleted"
  => /\ ~isProcessing
     /\ ~InFlight("step")
     /\ ~InFlight("auto")

\* C24 witness: a runStep is in flight for step 1 while step 2 is PENDING,
\* and the delete control of step 2 is withheld.
C24_Witness ==
  /\ InFlight("step")
  /\ isProcessing
  /\ Len(plan.steps) = 2
  /\ plan.steps[1].status = IN_PROGRESS
  /\ canDelete(2)
  /\ ~DeleteOffered(2)

\* C25: a reanalyze that succeeds installs the generated plan in place of the
\* old analysis and steps, was given the current text, and leaves
\* currentText, originalText and version as they were before it.
C25_ReanalyzeKeepsDocument ==
  JustEnded("iterate", TRUE)
  => /\ plan = lastEvent.result
     /\ plan \in GeneratedPlans
     /\ inflight = << >>
     /\ docState = lastEvent.startDoc
     /\ docState.currentText # Missing

\* C25 witness: a reanalyze has just succeeded at version 2 on the text a
\* step had produced, replacing a plan that had a COMPLETED step by fresh
\* PENDING steps.
C25_Witness ==
  /\ JustEnded("iterate", TRUE)
  /\ Len(lastEvent.startSteps) = 2
  /\ lastEvent.startSteps[1].status = COMPLETED
  /\ lastEvent.startDoc.version = 2
  /\ docState.version = 2
  /\ docState.currentText = "v2"
  /\ docState.originalText = "T"
  /\ Len(plan.steps) = 2
  /\ \A i \in 1..Len(plan.steps) : plan.steps[i].status = PENDING

\* This step is the end of an analyze or a reanalyze whose Plan Generator
\* call failed.
GenerationFailed ==
  /\ lastEvent'.type = "ended"
  /\ lastEvent'.kind \in {"analyze", "iterate"}
  /\ ~lastEvent'.ok

\* C26: when the Plan Generator call of an analyze or a reanalyze fails, the
\* plan (or its absence) and DocumentState are left exactly as they were, the
\* failure is reported and the busy flag is cleared.
C26_GenerationFailureKeepsPlan ==
  [][ GenerationFailed
      => /\ plan' = plan
         /\ docState' = docState
         /\ ~isProcessing'
         /\ error' # Null ]_vars

\* C26 witness: the first analysis has just failed: there is no plan, the
\* document state is empty, the busy flag is clear.
C26_Witness ==
  /\ JustEnded("analyze", FALSE)
  /\ ~HasPlan
  /\ docState = EmptyDoc
  /\ ~isProcessing
  /\ error # Null

\* C27: a Plan Generator response without its analysis object is a failure:
\* no plan without an analysis is ever installed.
C27_IncompleteAnalysisRejected ==
  HasPlan => plan.analysis # Missing

\* C28: an executor response without revisedText or without diffSummary is a
\* failure: the runStep ends with its step FAILED and DocumentState as it was,
\* and currentText is never set to a missing value.
C28_IncompleteResultRejected ==
  /\ docState.currentText # Missing
  /\ ( /\ lastEvent.type = "ended"
       /\ lastEvent.kind = "step"
       /\ \/ lastEvent.result.revisedText = Missing
          \/ lastEvent.result.diffSummary = Missing )
     => /\ HasPlan
        /\ lastEvent.idx <= Len(plan.steps)
        /\ plan.steps[lastEvent.idx].status = FAILED
        /\ docState = lastEvent.startDoc

\* C29: with no API key, an analyze, reanalyze, runStep or runAll returns
\* before any remote call: no step of the program starts a call, and the
\* operation leaves the busy flag, the plan and DocumentState unchanged.
C29_NoKeyNoCall ==
  [][ ~apiKey
      => /\ Len(inflight') <= Len(inflight)
         /\ (lastEvent'.type = "rejected" /\ lastEvent'.why = "NotConfigured")
            => UNCHANGED << plan, docState, isProcessing, isAutoRunning,
                            activeStepId, inflight >> ]_vars

\* C29 witness: with no API key and an idle controller, a runAll on a plan
\* with a PENDING step was just turned down.
C29_Witness ==
  /\ ~apiKey
  /\ lastEvent.type = "rejected"
  /\ lastEvent.op = "runAll"
  /\ lastEvent.why = "NotConfigured"
  /\ HasPlan
  /\ hasPendingSteps
  /\ ~isProcessing
  /\ inflight = << >>

\* C30: in every reachable state the ids of the steps of the plan are
\* pairwise distinct.
C30_StepIdsDistinct ==
  \A i, j \in 1..Len(plan.steps) :
    plan.steps[i].id = plan.steps[j].id => i = j

\* C31, as stated: once a plan has been created (version is at least 1), no
\* step of the program decreases the version.
C31_VersionNeverDecreases ==
  [][ docState.version >= 1
      => docState'.version >= docState.version ]_vars

\* C31, amended: in every step of the program that starts and ends with a
\* plan, the version does not decrease; only the discard of the project
\* takes it back, to 0.
C31_VersionMonotoneWhilePlan ==
  [][ /\ (HasPlan /\ HasPlan')
         => docState'.version >= docState.version
      /\ docState'.version < docState.version
         => /\ lastEvent'.type = "discarded"
            /\ docState'.version = 0 ]_vars

\* C31 witness: a re-analysis has just replaced the plan at version 3, after
\* two steps had completed.
C31_Witness ==
  /\ JustEnded("iterate", TRUE)
  /\ lastEvent.startDoc.version = 3
  /\ docState.version = 3
  /\ HasPlan

\* C32: originalText is set when the plan is first created, to the analysed
\* text, and no step of the program that starts and ends with a plan (a
\* runStep, runAll, addStep, deleteStep or reanalyze) changes it.
C32_OriginalTextFixed ==
  [][ /\ (HasPlan /\ HasPlan')
         => docState'.originalText = docState.originalText
      /\ (~HasPlan /\ HasPlan')
         => /\ lastEvent'.type = "ended"
            /\ lastEvent'.kind = "analyze"
            /\ docState'.originalText = lastEvent'.text ]_vars

\* C32 witness: a chain has just completed two steps; currentText is the
\* revised text and originalText is still the analysed text.
C32_Witness ==
  /\ JustEnded("auto", TRUE)
  /\ Len(lastEvent.done) = 2
  /\ docState.originalText = "T"
  /\ docState.currentText = "v2"
  /\ docState.version = 3

\* C33: in a step of the program that starts and ends with a plan,
\* currentText (and the version with it) changes only if a step of the plan
\* goes from IN_PROGRESS to COMPLETED in it.
C33_CurrentTextOnlyOnCompletion ==
  [][ ( /\ HasPlan
        /\ HasPlan'
        /\ \/ docState'.currentText # docState.currentText
           \/ docState'.version # docState.version )
      => \E i \in 1..Len(plan.steps) :
           /\ i <= Len(plan'.steps)
           /\ plan.steps[i].status = IN_PROGRESS
           /\ plan'.steps[i].status = COMPLETED ]_vars

\* C33 witness: a step was just deleted from a plan whose text a completed
\* step had revised; the revised text is still the current text.
C33_Witness ==
  /\ lastEvent.type = "deleted"
  /\ plan.steps # lastEvent.before
  /\ docState.currentText = "v2"
  /\ docState.originalText = "T"
  /\ docState.version = 2

AllPending == \A i \in 1..Len(plan.steps) : plan.steps[i].status = PENDING

\* C34: a successful analysis of text T installs a plan whose steps are all
\* PENDING and sets originalText = currentText = T and version = 1; a
\* successful reanalyze installs a plan whose steps are all PENDING and
\* leaves DocumentState as it was.
C34_AnalysisSeedsReanalysisDoesNot ==
  /\ JustEnded("analyze", TRUE)
     => /\ HasPlan
        /\ AllPending
        /\ docState = [originalText |-> lastEvent.text,
                       currentText |-> lastEvent.text, version |-> 1]
  /\ JustEnded("iterate", TRUE)
     => /\ HasPlan
        /\ AllPending
        /\ docState = lastEvent.startDoc

\* C34 witness: the first analysis of T has just installed two PENDING steps.
C34_Witness ==
  /\ JustEnded("analyze", TRUE)
  /\ lastEvent.text = "T"
  /\ Len(plan.steps) = 2
  /\ AllPending
  /\ docState = [originalText |-> "T", currentText |-> "T", version |-> 1]

\* C35: in every step of the program that keeps the plan and its steps'
\* positions, each step keeps its id, name, description and reasoning: a run
\* that succeeds or fails alters only status, output and diffSummary.
C35_DescriptiveFieldsFixed ==
  [][ PlanKept
      => \A i \in 1..Len(plan.steps) :
           i <= Len(plan'.steps)
           => /\ plan'.steps[i].id = plan.steps[i].id
              /\ plan'.steps[i].name = plan.steps[i].name
              /\ plan'.steps[i].description = plan.steps[i].description
              /\ plan'.steps[i].reasoning = plan.steps[i].reasoning ]_vars

\* C35 witness: the first step, a step of the service, was completed, and a
\* run has just failed on the second step, which the user appended.
C35_Witness ==
  /\ HasPlan
  /\ Len(plan.steps) = 2
  /\ plan.steps[1].status = COMPLETED
  /\ plan.steps[1].name = "n"
  /\ plan.steps[2].status = FAILED
  /\ plan.steps[2].reasoning = "user"
  /\ JustEnded("step", FALSE)

\* C36: the project is discarded only while not busy and with nothing in
\* flight; discarding leaves no plan, originalText and currentText empty and
\* version 0; the analysis that next creates a plan yields version 1.
C36_DiscardResets ==
  [][ /\ (HasPlan /\ ~HasPlan')
         => /\ ~isProcessing
            /\ inflight = << >>
            /\ lastEvent'.type = "discarded"
            /\ docState' = [originalText |-> "", currentText |-> "", version |-> 0]
      /\ lastEvent'.type = "discarded"
         => /\ ~HasPlan'
            /\ docState' = [originalText |-> "", currentText |-> "", version |-> 0]
      /\ (~HasPlan /\ HasPlan')
         => docState'.version = 1 ]_vars

\* C36 witness: a project whose document had reached version 2 has just been
\* discarded while nothing was running.
C36_Witness ==
  /\ lastEvent.type = "discarded"
  /\ lastEvent.before.version = 2
  /\ lastEvent.before.originalText = "T"
  /\ ~HasPlan
  /\ ~isProcessing
  /\ docState = [originalText |-> "", currentText |-> "", version |-> 0]

NonePending(steps) == \A i \in 1..Len(steps) : steps[i].status # PENDING

\* C37: a runAll that starts on a plan with no PENDING step (a plan with zero
\* steps included) ends in the step of the program that starts it: it makes
\* no executor call, leaves the plan, DocumentState and the calls in flight
\* as they were, and ends with busy cleared and no failure reported.
C37_RunAllNothingPending ==
  [][ ( /\ lastEvent'.type = "ended"
        /\ lastEvent'.kind = "auto"
        /\ NonePending(lastEvent'.startSteps) )
      => /\ lastEvent'.ok
         /\ lastEvent'.called = << >>
         /\ lastEvent'.startSteps = plan.steps
         /\ plan' = plan
         /\ docState' = docState
         /\ inflight' = inflight
         /\ ~isProcessing'
         /\ ~isAutoRunning'
         /\ error' = Null ]_vars

\* C37 witness: runAll has just ended on a plan whose two steps are COMPLETED
\* and FAILED.
C37_Witness ==
  /\ JustEnded("auto", TRUE)
  /\ lastEvent.called = << >>
  /\ HasPlan
  /\ Len(plan.steps) = 2
  /\ plan.steps[1].status = COMPLETED
  /\ plan.steps[2].status = FAILED
  /\ ~isProcessing
  /\ error = Null

\* runAll has just ended on a plan with zero steps.
C37_ZeroSteps ==
  /\ JustEnded("auto", TRUE)
  /\ HasPlan
  /\ plan.steps = << >>

\* C38: whenever the busy flag is clear no step of the plan is IN_PROGRESS.
C38_IdleMeansNoneInProgress ==
  ~isProcessing => InProgressCount = 0

\* Every step but the one at index i is the same before and after.
OthersUntouched(i) ==
  /\ Len(plan'.steps) = Len(plan.steps)
  /\ \A j \in 1..Len(plan.steps) : j # i => plan'.steps[j] = plan.steps[j]

\* This step of the program starts a runStep.
RunStepStarts ==
  /\ Len(inflight') = Len(inflight) + 1
  /\ inflight'[Len(inflight')].kind = "step"

\* This step of the program ends a runStep.
RunStepEnds ==
  /\ Len(inflight') = Len(inflight) - 1
  /\ lastEvent'.type = "ended"
  /\ lastEvent'.kind = "step"

\* C39: what a runStep writes, at its start and when it finishes, lands on a
\* step that carries the requested id, also when the step list has changed
\* in between, and the run alters no other step.
C39_RunStepWritesRequestedStep ==
  [][ /\ RunStepStarts
         => LET call == inflight'[Len(inflight')] IN
            /\ call.idx \in 1..Len(plan'.steps)
            /\ plan'.steps[call.idx].id = call.req
            /\ plan'.steps[call.idx].status = IN_PROGRESS
            /\ OthersUntouched(call.idx)
      /\ RunStepEnds
         => /\ HasPlan'
            /\ lastEvent'.idx \in 1..Len(plan'.steps)
            /\ plan'.steps[lastEvent'.idx].id = lastEvent'.req
            /\ plan.steps[lastEvent'.idx].id = lastEvent'.req
            /\ plan.steps[lastEvent'.idx].status = IN_PROGRESS
            /\ plan'.steps[lastEvent'.idx].status
                 = IF lastEvent'.ok THEN COMPLETED ELSE FAILED
            /\ lastEvent'.ok
               => /\ plan'.steps[lastEvent'.idx].output = lastEvent'.result.revisedText
                  /\ plan'.steps[lastEvent'.idx].diffSummary = lastEvent'.result.diffSummary
            /\ OthersUntouched(lastEvent'.idx) ]_vars

\* C39 witness: a runStep has just completed the step it was asked to run,
\* and a step was appended to the list while the run was in flight.
C39_Witness ==
  /\ JustEnded("step", TRUE)
  /\ HasPlan
  /\ Len(lastEvent.startSteps) = 1
  /\ Len(plan.steps) = 2
  /\ plan.steps[1].id = lastEvent.req
  /\ plan.steps[1].status = COMPLETED
  /\ plan.steps[2].status = PENDING

\* The run control of step i is offered only for a PENDING step that is first
\* in the list or whose immediate predecessor is COMPLETED, and only while
\* nothing is in flight.
RunControlGated(i) ==
  /\ plan.steps[i].status = PENDING
  /\ (IF i = 1 THEN TRUE ELSE plan.steps[i - 1].status = COMPLETED)
  /\ ~isProcessing
  /\ ~isAutoRunning
  /\ inflight = << >>

\* C40 as stated: the run control is gated as above and, consequently, is
\* never offered for a step that has a FAILED step anywhere before it.
C40_NoManualRunAfterFailed ==
  \A i \in 1..Len(plan.steps) :
    StartStepOffered(i)
    => /\ RunControlGated(i)
       /\ \A j \in 1..(i - 1) : plan.steps[j].status # FAILED

\* C40: the run control of a step is offered only for a PENDING step that is
\* first in the list or whose immediate predecessor is COMPLETED, and only
\* while nothing is in flight; consequently it is never offered for the step
\* immediately after a FAILED step, and every step after an offered step is
\* still PENDING.
C40_RunControlGating ==
  \A i \in 1..Len(plan.steps) :
    StartStepOffered(i)
    => /\ RunControlGated(i)
       /\ (IF i = 1 THEN TRUE ELSE plan.steps[i - 1].status # FAILED)
       /\ \A j \in (i + 1)..Len(plan.steps) : plan.steps[j].status = PENDING

\* C40 witness: the first step FAILED in a manual run, a chain completed the
\* second, and the run control is offered for a third step appended later.
C40_Witness ==
  /\ HasPlan
  /\ Len(plan.steps) = 3
  /\ plan.steps[1].status = FAILED
  /\ plan.steps[2].status = COMPLETED
  /\ plan.steps[3].status = PENDING
  /\ StartStepOffered(3)

====
